---- MODULE Spec2Model ----
(***************************************************************************)
(* Model of picoCTF-web/api/problem.py: problem publication, instance      *)
(* assignment and resolution, unlock evaluation over bundles, submission   *)
(* grading and the submission ledger.                                      *)
(*                                                                         *)
(* The document store is modelled collection by collection: db.problems    *)
(* and db.bundles are sequences of documents in insertion order (find_one  *)
(* returns the first match), db.teams is a function of tid, and            *)
(* db.submissions is the ledger, a sequence of entries.                    *)
(***************************************************************************)
EXTENDS Integers, Sequences, FiniteSets, TLC

VARIABLES
    problems,         \* db.problems, in insertion order
    bundles,          \* db.bundles, in insertion order
    teams,            \* db.teams, by tid
    submissions,      \* db.submissions, the ledger
    enable_sharding,  \* settings["shell_servers"]["enable_sharding"]
    DEBUG_KEY,        \* the override key: {} when None, else {key}
    last,             \* the most recent call: its arguments and what it returned
    call,             \* the calls in flight, each with its position
    cache             \* the memoized score of each team: {} when absent

vars == <<problems, bundles, teams, submissions, enable_sharding, DEBUG_KEY,
          last, call, cache>>

(***************************************************************************)
(* Bounds of the model.                                                    *)
(***************************************************************************)
\* instances one publish of one problem from one shell server may carry
MaxInstances == 2
\* entries the ledger may hold
MaxSubmissions == 2
\* forced reassignments one in-flight get_instance_data call is followed for
MaxReassign == 2

(***************************************************************************)
(* The universe: problems by display name, shell servers, teams, users.    *)
(***************************************************************************)
Names == {"A", "B", "C"}
Sids == {1, 2}
Tids == {1, 2}
Uids == {1, 2, 3}
Categories == {"web", "crypto"}

\* api.common.hash("{}-{}".format(name, author)): one author, so the pid is
\* an injective code of the name
ProblemHash(name) == CASE name = "A" -> 101
                       [] name = "B" -> 102
                       [] OTHER -> 103

Pids == {ProblemHash(n) : n \in Names}

\* the static fields a publish of a problem carries
ProblemCategory(name) == IF name = "A" THEN "web" ELSE "crypto"
ProblemScore(name) == IF name = "A" THEN 10 ELSE 20

\* api.shell_servers.get_server(sid)["server_number"]
ServerNumber(sid) == sid

\* api.team.get_team_uids(tid)
Members(tid) == IF tid = 1 THEN {1, 2} ELSE {3}

\* flags and keys are strings, modelled as sequences of characters
F1 == <<1>>
F2 == <<2>>

\* api.common.hash(str(instance_number) + sid + pid): injective on the
\* model's instance numbers, shell servers and pids, and never an index
IidHash(n, sid, pid) == 1000 * pid + 10 * sid + n

(***************************************************************************)
(* set_instance_ids: the instances of one publish, numbered 0..n-1.        *)
(***************************************************************************)
set_instance_ids(pid, sid, n, flag) ==
    [i \in 1..n |-> [iid |-> IidHash(i - 1, sid, pid),
                     sid |-> sid,
                     server_number |-> ServerNumber(sid),
                     flag |-> flag]]

(***************************************************************************)
(* get_problem(pid=...): the first document with that pid.                 *)
(***************************************************************************)
ProblemIndex(ps, pid) ==
    IF \E i \in 1..Len(ps) : ps[i].pid = pid
    THEN CHOOSE i \in 1..Len(ps) :
            /\ ps[i].pid = pid
            /\ \A j \in 1..(i - 1) : ps[j].pid # pid
    ELSE 0

HasProblem(pid) == ProblemIndex(problems, pid) # 0

get_problem(pid) == problems[ProblemIndex(problems, pid)]

(***************************************************************************)
(* insert_problem(problem, sid): a first publish inserts the document,     *)
(* disabled; a publish of an existing pid keeps the instances of the       *)
(* other shell servers, appends the published ones and updates in place.   *)
(***************************************************************************)
\* mutant: a publish of an existing pid replaces the whole instance list
insert_problem_replacing(ps, name, sid, n, flag) ==
    LET pid == ProblemHash(name)
        published == set_instance_ids(pid, sid, n, flag)
        idx == ProblemIndex(ps, pid)
        fresh == [pid |-> pid,
                  name |-> name,
                  sanitized_name |-> name,
                  category |-> ProblemCategory(name),
                  score |-> ProblemScore(name),
                  disabled |-> TRUE,
                  instances |-> published]
    IN IF idx # 0
       THEN [ps EXCEPT ![idx] =
               [fresh EXCEPT !.disabled = ps[idx].disabled \/ Len(published) = 0]]
       ELSE Append(ps, fresh)

insert_problem(ps, name, sid, n, flag) ==
    LET pid == ProblemHash(name)
        published == set_instance_ids(pid, sid, n, flag)
        idx == ProblemIndex(ps, pid)
        fresh == [pid |-> pid,
                  name |-> name,
                  sanitized_name |-> name,
                  category |-> ProblemCategory(name),
                  score |-> ProblemScore(name),
                  disabled |-> TRUE,
                  instances |-> published]
    IN IF idx # 0
       THEN LET old == ps[idx]
                kept == SelectSeq(old.instances, LAMBDA i : i.sid # sid)
                instances == kept \o published
            IN [ps EXCEPT ![idx] =
                   [fresh EXCEPT !.instances = instances,
                                 !.disabled = old.disabled \/ Len(instances) = 0]]
       ELSE Append(ps, fresh)

(***************************************************************************)
(* update_problem(pid, {"disabled": d}): the administrator's switch.       *)
(***************************************************************************)
update_problem(ps, pid, d) ==
    [ps EXCEPT ![ProblemIndex(ps, pid)] = [@ EXCEPT !.disabled = d]]

\* what a call that raised returns
NoRet == << >>

(***************************************************************************)
(* assign_instance_to_team(pid, tid, reassign), on the team and problem    *)
(* documents it read: every outcome the random choice allows.  ret is the  *)
(* value the call returns, team the document it wrote back.                *)
(***************************************************************************)
TeamServer(team) ==
    IF "server_number" \in DOMAIN team THEN team.server_number ELSE 1

\* mutant: the shard filter is dropped
AvailableInstancesAnyShard(team, problem) == problem.instances

AvailableInstances(team, problem) ==
    IF enable_sharding
    THEN SelectSeq(problem.instances,
                   LAMBDA i : i.server_number = TeamServer(team))
    ELSE problem.instances

Commit(team, pid, iid) ==
    [team EXCEPT !.instances =
        [q \in DOMAIN team.instances \cup {pid} |->
            IF q = pid THEN iid ELSE team.instances[q]]]

\* mutant: the test for an existing assignment is dropped
assign_over_assignment(team, problem, reassign) ==
    LET available == AvailableInstances(team, problem)
    IN IF Len(available) = 0
       THEN {[err |-> IF enable_sharding THEN "shard_down" ELSE "globally_empty",
              ret |-> NoRet, team |-> team]}
       ELSE {[err |-> "ok",
              ret |-> instance_number,
              team |-> Commit(team, problem.pid,
                              available[instance_number + 1].iid)]
             : instance_number \in 0..(Len(available) - 1)}

\* mutant: the reason of an empty candidate list follows the problem's
\* instance list, not the sharding setting
assign_reason_by_list(team, problem, reassign) ==
    LET available == AvailableInstances(team, problem)
    IN IF problem.pid \in DOMAIN team.instances /\ ~reassign
       THEN {[err |-> "AlreadyAssigned", ret |-> NoRet, team |-> team]}
       ELSE IF Len(available) = 0
       THEN {[err |-> IF Len(problem.instances) = 0
                      THEN "globally_empty" ELSE "shard_down",
              ret |-> NoRet, team |-> team]}
       ELSE {[err |-> "ok",
              ret |-> instance_number,
              team |-> Commit(team, problem.pid,
                              available[instance_number + 1].iid)]
             : instance_number \in 0..(Len(available) - 1)}

assign_instance_to_team(team, problem, reassign) ==
    LET pid == problem.pid
        available == AvailableInstances(team, problem)
    IN IF pid \in DOMAIN team.instances /\ ~reassign
       THEN {[err |-> "AlreadyAssigned", ret |-> NoRet, team |-> team]}
       ELSE IF Len(available) = 0
       THEN IF enable_sharding
            THEN {[err |-> "shard_down", ret |-> NoRet, team |-> team]}
            ELSE {[err |-> "globally_empty", ret |-> NoRet, team |-> team]}
       ELSE {[err |-> "ok",
              ret |-> instance_number,
              team |-> Commit(team, pid, available[instance_number + 1].iid)]
             : instance_number \in 0..(Len(available) - 1)}

(***************************************************************************)
(* get_instance_data(pid, tid), as one uninterrupted call on the team      *)
(* document: every outcome the random choices allow.  inst is the          *)
(* instance returned, team the team document as the call leaves it, and    *)
(* reassigns counts the calls of assign with reassign=True it made.        *)
(***************************************************************************)
\* the position of the first instance with that iid, 0 when there is none
InstanceIndex(problem, iid) ==
    IF \E i \in 1..Len(problem.instances) : problem.instances[i].iid = iid
    THEN CHOOSE i \in 1..Len(problem.instances) :
            /\ problem.instances[i].iid = iid
            /\ \A j \in 1..(i - 1) : problem.instances[j].iid # iid
    ELSE 0

\* lines 347-350: the iid to look for, from the mapping or from assign
FirstIid(team, problem) ==
    IF problem.pid \notin DOMAIN team.instances
    THEN assign_instance_to_team(team, problem, FALSE)
    ELSE {[err |-> "ok", ret |-> team.instances[problem.pid], team |-> team]}

Raised(err, team, n) ==
    [err |-> err, inst |-> NoRet, team |-> team, reassigns |-> n]

RECURSIVE get_instance_data(_, _, _)
get_instance_data(team, pid, n) ==
    IF ~HasProblem(pid)
    THEN {Raised("NotFound", team, n)}
    ELSE LET problem == get_problem(pid)
         IN UNION {
              IF a.err # "ok"
              THEN {Raised(a.err, a.team, n)}
              ELSE IF InstanceIndex(problem, a.ret) # 0
              THEN {[err |-> "ok",
                     inst |-> problem.instances[InstanceIndex(problem, a.ret)],
                     team |-> a.team,
                     reassigns |-> n]}
              ELSE UNION {
                     IF b.err # "ok"
                     THEN {Raised(b.err, b.team, n + 1)}
                     ELSE get_instance_data(b.team, pid, n + 1)
                     : b \in assign_instance_to_team(a.team, problem, TRUE)}
              : a \in FirstIid(team, problem)}

(***************************************************************************)
(* Bundles.  A bundle document carries the key "dependencies" or not; a    *)
(* dependency is [weightmap, threshold], the weightmap a function of the   *)
(* sanitized names it lists.                                               *)
(***************************************************************************)
\* api.common.hash("{}-{}".format(name, author)) of a bundle
BundleHash(name) == IF name = "X" THEN 201 ELSE 202

BundleIndex(bs, bid) ==
    IF \E i \in 1..Len(bs) : bs[i].bid = bid
    THEN CHOOSE i \in 1..Len(bs) :
            /\ bs[i].bid = bid
            /\ \A j \in 1..(i - 1) : bs[j].bid # bid
    ELSE 0

\* dict.update: the keys of updates replace those of doc, the others stay
DictUpdate(doc, updates) ==
    [k \in DOMAIN doc \cup DOMAIN updates |->
        IF k \in DOMAIN updates THEN updates[k] ELSE doc[k]]

update_bundle(bs, bid, updates) ==
    [bs EXCEPT ![BundleIndex(bs, bid)] = DictUpdate(@, updates)]

insert_bundle(bs, bundle) ==
    LET bid == BundleHash(bundle.name)
    IN IF BundleIndex(bs, bid) # 0
       THEN update_bundle(bs, bid, bundle)
       ELSE Append(bs, DictUpdate(bundle,
                       [bid |-> bid, dependencies_enabled |-> FALSE]))

(***************************************************************************)
(* is_problem_unlocked(problem, solved): solved is the list of solved      *)
(* problem documents.                                                      *)
(***************************************************************************)
\* dependency['weightmap'].get(name, 0)
WeightOf(weightmap, name) ==
    IF name \in DOMAIN weightmap THEN weightmap[name] ELSE 0

RECURSIVE WeightSum(_, _, _)
WeightSum(weightmap, solved, i) ==
    IF i > Len(solved)
    THEN 0
    ELSE WeightOf(weightmap, solved[i].sanitized_name)
            + WeightSum(weightmap, solved, i + 1)

\* mutant: the bundle's dependencies_enabled switch is not read
BundleLocksIgnoringSwitch(bundle, problem, solved) ==
    /\ problem.sanitized_name \in bundle.problems
    /\ "dependencies" \in DOMAIN bundle
    /\ problem.sanitized_name \in DOMAIN bundle.dependencies
    /\ WeightSum(bundle.dependencies[problem.sanitized_name].weightmap, solved, 1)
          < bundle.dependencies[problem.sanitized_name].threshold

\* mutant: a weight sum equal to the threshold does not unlock
BundleLocksAtThreshold(bundle, problem, solved) ==
    /\ problem.sanitized_name \in bundle.problems
    /\ "dependencies" \in DOMAIN bundle /\ bundle.dependencies_enabled
    /\ problem.sanitized_name \in DOMAIN bundle.dependencies
    /\ WeightSum(bundle.dependencies[problem.sanitized_name].weightmap, solved, 1)
          <= bundle.dependencies[problem.sanitized_name].threshold

\* lines 789-798: the bundle sets unlocked to False
BundleLocks(bundle, problem, solved) ==
    /\ problem.sanitized_name \in bundle.problems
    /\ "dependencies" \in DOMAIN bundle /\ bundle.dependencies_enabled
    /\ problem.sanitized_name \in DOMAIN bundle.dependencies
    /\ WeightSum(bundle.dependencies[problem.sanitized_name].weightmap, solved, 1)
          < bundle.dependencies[problem.sanitized_name].threshold

\* mutant: each bundle with a rule overwrites the verdict of the ones before
RECURSIVE UnlockedLastRule(_, _, _, _)
UnlockedLastRule(problem, solved, i, unlocked) ==
    IF i > Len(bundles)
    THEN unlocked
    ELSE UnlockedLastRule(problem, solved, i + 1,
            IF /\ problem.sanitized_name \in bundles[i].problems
               /\ "dependencies" \in DOMAIN bundles[i]
               /\ bundles[i].dependencies_enabled
               /\ problem.sanitized_name \in DOMAIN bundles[i].dependencies
            THEN ~BundleLocks(bundles[i], problem, solved)
            ELSE unlocked)

\* the loop of lines 786-800 from bundle i on
RECURSIVE UnlockedFrom(_, _, _, _)
UnlockedFrom(problem, solved, i, unlocked) ==
    IF i > Len(bundles)
    THEN unlocked
    ELSE UnlockedFrom(problem, solved, i + 1,
            IF BundleLocks(bundles[i], problem, solved) THEN FALSE ELSE unlocked)

is_problem_unlocked(problem, solved) == UnlockedFrom(problem, solved, 1, TRUE)

(***************************************************************************)
(* The ledger.  An entry is [uid, tid, pid, key, category, correct].  An   *)
(* optional argument is a set: {} for None, {v} for the value v.  A        *)
(* document without a field matches no value asked of that field.          *)
(***************************************************************************)
Matches(s, pid, uid, tid, category, correctness) ==
    /\ IF uid # {} THEN "uid" \in DOMAIN s /\ s.uid \in uid
       ELSE (tid # {} => "tid" \in DOMAIN s /\ s.tid \in tid)
    /\ pid # {} => "pid" \in DOMAIN s /\ s.pid \in pid
    /\ category # {} => "category" \in DOMAIN s /\ s.category \in category
    /\ correctness # {} => s.correct \in correctness

\* db.submissions.find(match) on the ledger given
find(ledger, pid, uid, tid, category, correctness) ==
    SelectSeq(ledger,
              LAMBDA s : Matches(s, pid, uid, tid, category, correctness))

get_submissions(pid, uid, tid, category, correctness) ==
    find(submissions, pid, uid, tid, category, correctness)

\* api.team.get_team_uids(tid), as the list it returns
RECURSIVE SetToSeq(_)
SetToSeq(S) ==
    IF S = {} THEN << >>
    ELSE LET x == CHOOSE x \in S : \A y \in S : x <= y
         IN <<x>> \o SetToSeq(S \ {x})

RECURSIVE MemberSubmissions(_, _, _, _)
MemberSubmissions(ledger, members, i, category) ==
    IF i > Len(members) THEN << >>
    ELSE find(ledger, {}, {members[i]}, {}, category, {TRUE})
            \o MemberSubmissions(ledger, members, i + 1, category)

\* lines 744-755: the first submission of each pid, disabled problems out
RECURSIVE SolvedFrom(_, _, _, _)
SolvedFrom(subs, i, pids, show_disabled) ==
    IF i > Len(subs) THEN << >>
    ELSE IF subs[i].pid \in pids
    THEN SolvedFrom(subs, i + 1, pids, show_disabled)
    ELSE LET problem == get_problem(subs[i].pid)
             rest == SolvedFrom(subs, i + 1, pids \cup {subs[i].pid}, show_disabled)
         IN IF ~problem.disabled \/ show_disabled
            THEN <<problem>> \o rest
            ELSE rest

\* get_solved_problems on the ledger given
solved_problems(ledger, tid, category, show_disabled) ==
    SolvedFrom(find(ledger, {}, {}, {tid}, category, {TRUE})
                  \o MemberSubmissions(ledger, SetToSeq(Members(tid)), 1, category),
               1, {}, show_disabled)

get_solved_problems(tid, category, show_disabled) ==
    solved_problems(submissions, tid, category, show_disabled)

(***************************************************************************)
(* get_all_problems(category, show_disabled): the matching documents by    *)
(* ascending score, then name.                                             *)
(***************************************************************************)
NameRank(name) == CASE name = "A" -> 1 [] name = "B" -> 2 [] OTHER -> 3

Before(p, q) ==
    \/ p.score < q.score
    \/ p.score = q.score /\ NameRank(p.name) < NameRank(q.name)

RECURSIVE SortProblems(_)
SortProblems(S) ==
    IF S = {} THEN << >>
    ELSE LET p == CHOOSE p \in S : \A q \in S \ {p} : Before(p, q)
         IN <<p>> \o SortProblems(S \ {p})

get_all_problems(category, show_disabled) ==
    SortProblems({problems[i] : i \in
        {j \in 1..Len(problems) :
            /\ category # {} => problems[j].category \in category
            /\ ~show_disabled => ~problems[j].disabled}})

(***************************************************************************)
(* get_unlocked_pids(tid, category), as one uninterrupted call: the list   *)
(* returned and the team document as the call leaves it.                   *)
(***************************************************************************)
\* mutant: the solved problems are limited to the category asked for
SolvedInCategory(tid, category) == get_solved_problems(tid, category, FALSE)

\* line 815
SolvedForUnlock(tid, category) == get_solved_problems(tid, {}, FALSE)

RECURSIVE PidsOf(_, _)
PidsOf(ps, i) == IF i > Len(ps) THEN << >> ELSE <<ps[i].pid>> \o PidsOf(ps, i + 1)

\* lines 818-821
UnlockedList(tid, category) ==
    PidsOf(SelectSeq(get_all_problems(category, FALSE),
                     LAMBDA p : is_problem_unlocked(p, SolvedForUnlock(tid, category))),
           1)

\* mutant: the test of line 824 is dropped, assign is called for every pid
RECURSIVE AssignUnlockedUntested(_, _, _, _)
AssignUnlockedUntested(team0, team, unlocked, i) ==
    IF i > Len(unlocked)
    THEN {[err |-> "ok", ret |-> unlocked, team |-> team]}
    ELSE UNION {
           IF a.err # "ok"
           THEN {[err |-> a.err, ret |-> NoRet, team |-> a.team]}
           ELSE AssignUnlockedUntested(team0, a.team, unlocked, i + 1)
           : a \in assign_instance_to_team(team, get_problem(unlocked[i]), FALSE)}

\* mutant: the loop of lines 823-825 is dropped
AssignUnlockedSkipped(team0, team, unlocked, i) ==
    {[err |-> "ok", ret |-> unlocked, team |-> team]}

\* lines 823-825 from position i on; team0 is the document read at line 816
RECURSIVE AssignUnlocked(_, _, _, _)
AssignUnlocked(team0, team, unlocked, i) ==
    IF i > Len(unlocked)
    THEN {[err |-> "ok", ret |-> unlocked, team |-> team]}
    ELSE IF unlocked[i] \in DOMAIN team0.instances
    THEN AssignUnlocked(team0, team, unlocked, i + 1)
    ELSE UNION {
           IF a.err # "ok"
           THEN {[err |-> a.err, ret |-> NoRet, team |-> a.team]}
           ELSE AssignUnlocked(team0, a.team, unlocked, i + 1)
           : a \in assign_instance_to_team(team, get_problem(unlocked[i]), FALSE)}

get_unlocked_pids(team, category) ==
    AssignUnlocked(team, team, UnlockedList(team.tid, category), 1)

InSeq(x, seq) == \E i \in 1..Len(seq) : seq[i] = x

(***************************************************************************)
(* grade_problem(pid, key, tid).                                           *)
(***************************************************************************)
\* flag in key
Contains(key, flag) ==
    \E i \in 0..(Len(key) - Len(flag)) : SubSeq(key, i + 1, i + Len(flag)) = flag

\* mutant: the key has to be the flag itself
GradedExact(flag, key) ==
    key = flag \/ \E d \in DEBUG_KEY : Contains(key, d)

\* lines 401-403
Graded(flag, key) ==
    Contains(key, flag) \/ \E d \in DEBUG_KEY : Contains(key, d)

grade_problem(team, pid, key) ==
    {[err |-> r.err,
      correct |-> IF r.err = "ok" THEN Graded(r.inst.flag, key) ELSE FALSE,
      team |-> r.team,
      reassigns |-> r.reassigns] : r \in get_instance_data(team, pid, 0)}

(***************************************************************************)
(* submit_key(tid, pid, key, method, uid, ip), as one uninterrupted call:  *)
(* ret is the tuple returned, events the writes and hooks in their order.  *)
(***************************************************************************)
SubmitFailed(err, team) ==
    [err |-> err, ret |-> NoRet, team |-> team, ledger |-> submissions,
     events |-> << >>, hook |-> {}]

\* mutant: the test of line 427 is dropped
NeverLocked(pid, unlocked) == FALSE

\* line 427
Locked(pid, unlocked) == ~InSeq(pid, unlocked)

\* mutant: the attempt is inserted whatever the user solved before
RecordedAlways(ledger, previously_solved_by_user, entry) == Append(ledger, entry)

\* lines 450-461
Recorded(ledger, previously_solved_by_user, entry) ==
    IF ~previously_solved_by_user THEN Append(ledger, entry) ELSE ledger

\* mutant: the caches and the achievements follow every correct key
EventsOnCorrect(correct, previously_solved_by_user) ==
    (IF ~previously_solved_by_user THEN <<"insert">> ELSE << >>)
        \o (IF correct THEN <<"recache", "achievements">> ELSE << >>)

\* lines 450-475: the write and the calls that follow it, in their order
Events(correct, previously_solved_by_user) ==
    (IF ~previously_solved_by_user THEN <<"insert">> ELSE << >>)
        \o (IF correct /\ ~previously_solved_by_user
            THEN <<"recache", "achievements">> ELSE << >>)

\* lines 471-477: process_achievements returns, or raises and the
\* exception leaves submit_key, after the insert of line 451; hook is the
\* set of the calls of process_achievements made, each with its arguments
Returned(ret, team, ledger, events, payload) ==
    IF InSeq("achievements", events)
    THEN {[err |-> "ok", ret |-> ret, team |-> team, ledger |-> ledger,
           events |-> events, hook |-> {payload}],
          [err |-> "AchievementError", ret |-> NoRet, team |-> team,
           ledger |-> ledger, events |-> events, hook |-> {payload}]}
    ELSE {[err |-> "ok", ret |-> ret, team |-> team, ledger |-> ledger,
           events |-> events, hook |-> {}]}

submit_key(team, pid, key, uid) ==
    UNION {
      IF u.err # "ok" THEN {SubmitFailed(u.err, u.team)}
      ELSE IF Locked(pid, u.ret) THEN {SubmitFailed("LockedProblem", u.team)}
      ELSE IF uid \notin Uids THEN {SubmitFailed("UnknownUser", u.team)}
      ELSE LET previously_solved_by_user ==
                   get_submissions({}, {uid}, {}, {}, {TRUE}) # << >>
               previously_solved_by_team ==
                   get_submissions({}, {}, {team.tid}, {}, {TRUE}) # << >>
           IN UNION {
                IF g.err # "ok" THEN {SubmitFailed(g.err, g.team)}
                ELSE Returned(<<g.correct, previously_solved_by_user,
                                previously_solved_by_team>>,
                              g.team,
                              Recorded(submissions, previously_solved_by_user,
                                       [uid |-> uid, tid |-> team.tid, pid |-> pid,
                                        key |-> key,
                                        category |-> get_problem(pid).category,
                                        correct |-> g.correct]),
                              Events(g.correct, previously_solved_by_user),
                              [event |-> "submit", uid |-> uid,
                               tid |-> team.tid, pid |-> pid])
                : g \in grade_problem(u.team, pid, key)}
      : u \in get_unlocked_pids(team, {})}

(***************************************************************************)
(* invalidate_submissions(pid, uid, tid): db.submissions.update(match,     *)
(* {"correct": False}).  The update document has no operator and the call  *)
(* no multi=True: the first document that matches is replaced by           *)
(* {"correct": False}, no other document is touched.                       *)
(***************************************************************************)
\* the position of the first entry that matches, 0 when there is none
FirstMatch(ledger, pid, uid, tid) ==
    IF \E j \in 1..Len(ledger) : Matches(ledger[j], pid, uid, tid, {}, {})
    THEN CHOOSE j \in 1..Len(ledger) :
            /\ Matches(ledger[j], pid, uid, tid, {}, {})
            /\ \A i \in 1..(j - 1) : ~Matches(ledger[i], pid, uid, tid, {}, {})
    ELSE 0

invalidate_submissions(ledger, pid, uid, tid) ==
    IF FirstMatch(ledger, pid, uid, tid) = 0 THEN ledger
    ELSE [ledger EXCEPT ![FirstMatch(ledger, pid, uid, tid)] = [correct |-> FALSE]]

(***************************************************************************)
(* reevaluate_submissions_for_problem(pid), as one uninterrupted call.     *)
(* keys is the dictionary of lines 620-628 in insertion order; a change    *)
(* is {} for None and {b} for the boolean b.                               *)
(***************************************************************************)
HasKey(keys, key) == \E k \in 1..Len(keys) : keys[k].key = key

RECURSIVE ReevaluateScan(_, _, _, _, _)
ReevaluateScan(tms, pid, subs, i, keys) ==
    IF i > Len(subs)
    THEN {[err |-> "ok", teams |-> tms, keys |-> keys]}
    ELSE IF HasKey(keys, subs[i].key)
    THEN ReevaluateScan(tms, pid, subs, i + 1, keys)
    ELSE UNION {
           IF g.err # "ok"
           THEN {[err |-> g.err,
                  teams |-> [tms EXCEPT ![subs[i].tid] = g.team],
                  keys |-> keys]}
           ELSE ReevaluateScan([tms EXCEPT ![subs[i].tid] = g.team], pid, subs,
                               i + 1,
                               Append(keys,
                                      [key |-> subs[i].key,
                                       change |-> IF g.correct # subs[i].correct
                                                  THEN {g.correct} ELSE {}]))
           : g \in grade_problem(tms[subs[i].tid], pid, subs[i].key)}

\* mutant: the update of line 632 without multi=True, the first entry only
ApplyChangesToFirst(ledger, keys) ==
    [j \in 1..Len(ledger) |->
        IF /\ \E k \in 1..Len(keys) :
                 keys[k].key = ledger[j].key /\ keys[k].change # {}
           /\ \A i \in 1..(j - 1) : ledger[i].key # ledger[j].key
        THEN [ledger[j] EXCEPT !.correct =
                CHOOSE b \in BOOLEAN :
                    \E k \in 1..Len(keys) :
                        keys[k].key = ledger[j].key /\ keys[k].change = {b}]
        ELSE ledger[j]]

\* lines 630-635: every entry with a changed key, whatever its pid
ApplyChanges(ledger, keys) ==
    [j \in 1..Len(ledger) |->
        IF \E k \in 1..Len(keys) :
              keys[k].key = ledger[j].key /\ keys[k].change # {}
        THEN [ledger[j] EXCEPT !.correct =
                CHOOSE b \in BOOLEAN :
                    \E k \in 1..Len(keys) :
                        keys[k].key = ledger[j].key /\ keys[k].change = {b}]
        ELSE ledger[j]]

\* on the team documents and the ledger given
reevaluate(tms, ledger, pid) ==
    {[err |-> r.err,
      teams |-> r.teams,
      ledger |-> IF r.err = "ok" THEN ApplyChanges(ledger, r.keys)
                 ELSE ledger]
     : r \in ReevaluateScan(tms, pid,
                            find(ledger, {pid}, {}, {}, {}, {}), 1, << >>)}

reevaluate_submissions_for_problem(pid) == reevaluate(teams, submissions, pid)

\* lines 641-642: the loop over the problems ps from position i on; done
\* is the set of the pids whose reevaluation returned
RECURSIVE ReevaluateEach(_, _, _, _)
ReevaluateEach(tms, ledger, ps, i) ==
    IF i > Len(ps)
    THEN {[err |-> "ok", teams |-> tms, ledger |-> ledger,
           done |-> {ps[k].pid : k \in 1..Len(ps)}]}
    ELSE UNION {
           IF r.err # "ok"
           THEN {[err |-> r.err, teams |-> r.teams, ledger |-> r.ledger,
                  done |-> {ps[k].pid : k \in 1..(i - 1)}]}
           ELSE ReevaluateEach(r.teams, r.ledger, ps, i + 1)
           : r \in reevaluate(tms, ledger, ps[i].pid)}

\* reevaluate_all_submissions(), after its api.cache.clear()
reevaluate_all_submissions ==
    ReevaluateEach(teams, submissions, get_all_problems({}, TRUE), 1)

(***************************************************************************)
(* The state after construction: an empty store and the registered teams.  *)
(* Team 1 carries no server_number (shard 1 by default), team 2 is on      *)
(* shard 2.                                                                *)
(***************************************************************************)
Idle == [op |-> "none"]

\* the cache as api.cache.clear() leaves it
EmptyCache == [t \in Tids |-> {}]

\* api.stats.get_score(tid), computed: the scores of the solved problems
RECURSIVE ScoreSum(_, _)
ScoreSum(solved, i) ==
    IF i > Len(solved) THEN 0 ELSE solved[i].score + ScoreSum(solved, i + 1)

\* on the ledger given
score(ledger, tid) == ScoreSum(solved_problems(ledger, tid, {}, FALSE), 1)

get_score(tid) == score(submissions, tid)

NoCall == [pc |-> "idle"]

InitTeams ==
    [t \in Tids |-> IF t = 1
                    THEN [tid |-> t, instances |-> << >>]
                    ELSE [tid |-> t, server_number |-> 2, instances |-> << >>]]

InitEmpty ==
    /\ problems = << >>
    /\ bundles = << >>
    /\ teams = InitTeams
    /\ submissions = << >>
    /\ enable_sharding \in BOOLEAN
    /\ DEBUG_KEY = {}
    /\ last = Idle
    /\ call = NoCall
    /\ cache = EmptyCache

(***************************************************************************)
(* Operations, each one whole call.                                        *)
(***************************************************************************)
InsertProblem(name, sid, n, flag) ==
    /\ problems' = insert_problem(problems, name, sid, n, flag)
    /\ last' = [op |-> "insert_problem", pid |-> ProblemHash(name), sid |-> sid]
    /\ UNCHANGED <<bundles, teams, submissions, enable_sharding, DEBUG_KEY, call, cache>>

UpdateProblem(pid, d) ==
    /\ HasProblem(pid)
    /\ problems' = update_problem(problems, pid, d)
    /\ last' = [op |-> "update_problem", pid |-> pid]
    /\ UNCHANGED <<bundles, teams, submissions, enable_sharding, DEBUG_KEY, call, cache>>

Assign(pid, tid, reassign) ==
    /\ HasProblem(pid)
    /\ \E o \in assign_instance_to_team(teams[tid], get_problem(pid), reassign) :
          /\ teams' = [teams EXCEPT ![tid] = o.team]
          /\ last' = [op |-> "assign", tid |-> tid, pid |-> pid,
                      reassign |-> reassign, err |-> o.err, ret |-> o.ret]
    /\ UNCHANGED <<problems, bundles, submissions, enable_sharding, DEBUG_KEY, call, cache>>

Resolve(pid, tid) ==
    /\ \E o \in get_instance_data(teams[tid], pid, 0) :
          /\ teams' = [teams EXCEPT ![tid] = o.team]
          /\ last' = [op |-> "resolve", tid |-> tid, pid |-> pid,
                      err |-> o.err, ret |-> o.inst, reassigns |-> o.reassigns,
                      committed |-> pid \in DOMAIN teams[tid].instances]
    /\ UNCHANGED <<problems, bundles, submissions, enable_sharding, DEBUG_KEY, call, cache>>

GetUnlockedPids(tid, category) ==
    /\ \E o \in get_unlocked_pids(teams[tid], category) :
          /\ teams' = [teams EXCEPT ![tid] = o.team]
          /\ last' = [op |-> "get_unlocked_pids", tid |-> tid,
                      category |-> category, err |-> o.err, ret |-> o.ret,
                      held |-> DOMAIN teams[tid].instances,
                      repeat |-> /\ last.op = "get_unlocked_pids"
                                 /\ last.tid = tid
                                 /\ last.category = category]
    /\ UNCHANGED <<problems, bundles, submissions, enable_sharding, DEBUG_KEY, call, cache>>

Grade(pid, key, tid) ==
    /\ \E o \in grade_problem(teams[tid], pid, key) :
          /\ teams' = [teams EXCEPT ![tid] = o.team]
          /\ last' = [op |-> "grade", tid |-> tid, pid |-> pid, key |-> key,
                      err |-> o.err, ret |-> o.correct,
                      reassigns |-> o.reassigns,
                      committed |-> pid \in DOMAIN teams[tid].instances]
    /\ UNCHANGED <<problems, bundles, submissions, enable_sharding, DEBUG_KEY, call, cache>>

Submit(tid, pid, key, uid) ==
    /\ Len(submissions) < MaxSubmissions
    /\ \E o \in submit_key(teams[tid], pid, key, uid) :
          /\ teams' = [teams EXCEPT ![tid] = o.team]
          /\ submissions' = o.ledger
          /\ last' = [op |-> "submit", tid |-> tid, pid |-> pid, key |-> key,
                      uid |-> uid, err |-> o.err, ret |-> o.ret,
                      events |-> o.events, hook |-> o.hook]
          /\ UNCHANGED <<problems, bundles, enable_sharding, DEBUG_KEY, call>>
          \* line 465, on the ledger as line 451 left it
          /\ cache' = IF InSeq("recache", o.events)
                      THEN [cache EXCEPT ![tid] = {score(o.ledger, tid)}]
                      ELSE cache

Reevaluate(pid) ==
    /\ HasProblem(pid)
    /\ \E o \in reevaluate_submissions_for_problem(pid) :
          /\ teams' = o.teams
          /\ submissions' = o.ledger
          /\ last' = [op |-> "reevaluate", pid |-> pid, err |-> o.err]
    /\ UNCHANGED <<problems, bundles, enable_sharding, DEBUG_KEY, call, cache>>

InvalidateSubmissions(pid, uid, tid) ==
    /\ submissions' = invalidate_submissions(submissions, pid, uid, tid)
    /\ last' = [op |-> "invalidate_submissions", pid |-> pid, uid |-> uid,
                tid |-> tid]
    /\ UNCHANGED <<problems, bundles, teams, enable_sharding, DEBUG_KEY, call,
                   cache>>

\* reevaluate_all_submissions(): the cache is cleared first, line 640
ReevaluateAll ==
    /\ cache' = EmptyCache
    /\ \E o \in reevaluate_all_submissions :
          /\ teams' = o.teams
          /\ submissions' = o.ledger
          /\ last' = [op |-> "reevaluate_all", err |-> o.err, done |-> o.done]
    /\ UNCHANGED <<problems, bundles, enable_sharding, DEBUG_KEY, call>>

\* api.stats.get_score(tid), memoized: the value in the cache when there
\* is one, else the value computed, which is kept in the cache
GetScore(tid) ==
    LET ret == IF cache[tid] # {} THEN CHOOSE v \in cache[tid] : TRUE
               ELSE get_score(tid)
    IN /\ cache' = [cache EXCEPT ![tid] = {ret}]
       /\ last' = [op |-> "get_score", tid |-> tid, ret |-> ret]
       /\ UNCHANGED <<problems, bundles, teams, submissions, enable_sharding,
                      DEBUG_KEY, call>>

(***************************************************************************)
(* get_instance_data(pid, tid) step by step, one step per access to the    *)
(* store, for the runs in which publishes of the problem arrive between    *)
(* its steps.  call.reassigns counts the calls of assign with              *)
(* reassign=True the call has made, call.committed tells whether the team  *)
(* held an instance of pid when the call began.  A publish writes db.problems only, so  *)
(* assign, which reads the problem once, is one step.                      *)
(***************************************************************************)
\* lines 344-345 of a fresh call
ResolveBegin(pid, tid) ==
    /\ call.pc \in {"idle", "done"}
    /\ HasProblem(pid)
    /\ call' = [pc |-> "lookup", tid |-> tid, pid |-> pid,
                instance_map |-> teams[tid].instances,
                problem |-> get_problem(pid),
                committed |-> pid \in DOMAIN teams[tid].instances,
                reassigns |-> 0]
    /\ UNCHANGED <<problems, bundles, teams, submissions, enable_sharding,
                   DEBUG_KEY, last, cache>>

\* lines 347-354: take the iid from the mapping read, or from assign, and
\* search the problem read for it
ResolveLookup ==
    /\ call.pc = "lookup"
    /\ HasProblem(call.pid)
    /\ \E a \in IF call.pid \notin DOMAIN call.instance_map
                 THEN assign_instance_to_team(teams[call.tid],
                                              get_problem(call.pid), FALSE)
                 ELSE {[err |-> "ok", ret |-> call.instance_map[call.pid],
                        team |-> teams[call.tid]]} :
          /\ teams' = [teams EXCEPT ![call.tid] = a.team]
          /\ call' = IF a.err # "ok"
                     THEN [call EXCEPT !.pc = "done"]
                     ELSE IF InstanceIndex(call.problem, a.ret) # 0
                     THEN [call EXCEPT !.pc = "done"]
                     ELSE [call EXCEPT !.pc = "reassign"]
    /\ UNCHANGED <<problems, bundles, submissions, enable_sharding, DEBUG_KEY, last, cache>>

\* line 357: assign with reassign=True
ResolveReassign ==
    /\ call.pc = "reassign"
    /\ call.reassigns < MaxReassign
    /\ \E b \in assign_instance_to_team(teams[call.tid],
                                        get_problem(call.pid), TRUE) :
          /\ teams' = [teams EXCEPT ![call.tid] = b.team]
          /\ call' = IF b.err # "ok"
                     THEN [call EXCEPT !.pc = "done",
                                       !.reassigns = @ + 1]
                     ELSE [call EXCEPT !.pc = "recurse",
                                       !.reassigns = @ + 1]
    /\ UNCHANGED <<problems, bundles, submissions, enable_sharding, DEBUG_KEY, last, cache>>

\* line 358 and lines 344-345 of the recursive call
ResolveRecurse ==
    /\ call.pc = "recurse"
    /\ call' = [call EXCEPT !.pc = "lookup",
                            !.instance_map = teams[call.tid].instances,
                            !.problem = get_problem(call.pid)]
    /\ UNCHANGED <<problems, bundles, teams, submissions, enable_sharding,
                   DEBUG_KEY, last, cache>>

InsertBundle(bundle) ==
    /\ bundles' = insert_bundle(bundles, bundle)
    /\ last' = [op |-> "insert_bundle", bid |-> BundleHash(bundle.name)]
    /\ UNCHANGED <<problems, teams, submissions, enable_sharding, DEBUG_KEY, call, cache>>

\* set_bundle_dependencies_enabled(bid, enabled); an unknown bid raises
SetBundleDependenciesEnabled(bid, enabled) ==
    /\ BundleIndex(bundles, bid) # 0
    /\ bundles' = update_bundle(bundles, bid, [dependencies_enabled |-> enabled])
    /\ cache' = EmptyCache
    /\ last' = [op |-> "set_bundle_dependencies_enabled", bid |-> bid]
    /\ UNCHANGED <<problems, teams, submissions, enable_sharding, DEBUG_KEY, call>>

IsProblemUnlocked(name, solved) ==
    /\ last' = [op |-> "is_problem_unlocked", name |-> name, solved |-> solved,
                ret |-> is_problem_unlocked([sanitized_name |-> name], solved)]
    /\ UNCHANGED <<problems, bundles, teams, submissions, enable_sharding,
                   DEBUG_KEY, call, cache>>

(***************************************************************************)
(* SpecAssign: publication of one problem from both shell servers and      *)
(* assignment of its instances to the two teams, from the empty store.     *)
(***************************************************************************)
NextAssign ==
    \/ \E sid \in Sids, n \in 0..MaxInstances : InsertProblem("A", sid, n, F1)
    \/ \E tid \in Tids, reassign \in BOOLEAN :
          Assign(ProblemHash("A"), tid, reassign)

SpecAssign == InitEmpty /\ [][NextAssign]_vars

(***************************************************************************)
(* SpecResolve: one get_instance_data call of team 1 at a time, with       *)
(* publishes of the problem from shell server 1 arriving between its       *)
(* steps.                                                                  *)
(***************************************************************************)
NextResolve ==
    \/ \E n \in 0..MaxInstances : InsertProblem("A", 1, n, F1)
    \/ ResolveBegin(ProblemHash("A"), 1)
    \/ ResolveLookup
    \/ ResolveReassign
    \/ ResolveRecurse

SpecResolve == InitEmpty /\ [][NextResolve]_vars

(***************************************************************************)
(* Spec: the calls of one team against a published store.  The store at    *)
(* the start is the one load_published and the administrator leave:        *)
(* problem A (category web) with two instances and problem B (category     *)
(* crypto) with one, both from shell server 1 and both enabled, and a      *)
(* bundle whose rule for B asks for A.                                     *)
(***************************************************************************)
PidA == ProblemHash("A")
PidB == ProblemHash("B")

PublishedBundle ==
    [name |-> "X", problems |-> {"A", "B"},
     dependencies |-> ("B" :> [weightmap |-> ("A" :> 1), threshold |-> 1])]

InitPublished ==
    /\ problems =
          update_problem(
            update_problem(
              insert_problem(insert_problem(<< >>, "A", 1, 2, F1), "B", 1, 1, F2),
              PidA, FALSE),
            PidB, FALSE)
    /\ bundles = insert_bundle(<< >>, PublishedBundle)
    /\ teams = InitTeams
    /\ submissions = << >>
    /\ enable_sharding = FALSE
    /\ DEBUG_KEY = {}
    /\ last = Idle
    /\ call = NoCall
    /\ cache = EmptyCache

Next ==
    \/ \E n \in 0..MaxInstances : InsertProblem("A", 1, n, F1)
    \/ \E pid \in {PidA, PidB}, d \in BOOLEAN : UpdateProblem(pid, d)
    \/ \E enabled \in BOOLEAN :
          SetBundleDependenciesEnabled(BundleHash("X"), enabled)
    \/ \E category \in {{}} \cup {{c} : c \in Categories} :
          GetUnlockedPids(1, category)
    \/ \E pid \in {PidA, PidB} : Resolve(pid, 1)
    \/ \E pid \in {PidA, PidB}, key \in {F1, F2} : Grade(pid, key, 1)
    \/ \E pid \in {PidA, PidB}, key \in {F1, F2} : Submit(1, pid, key, 1)
    \/ \E pid \in {PidA, PidB} : Reevaluate(pid)

Spec == InitPublished /\ [][Next]_vars

(***************************************************************************)
(* SpecUnlock: is_problem_unlocked on every list of solved problems, over  *)
(* the bundles that publishing and switching dependencies produce.         *)
(***************************************************************************)
Rule1 == [weightmap |-> ("A" :> 1 @@ "B" :> 2), threshold |-> 2]
Rule2 == [weightmap |-> ("A" :> 1), threshold |-> 1]

BundleChoices ==
    {[name |-> "X", problems |-> {"A", "B", "C"}, dependencies |-> ("C" :> Rule1)],
     [name |-> "X", problems |-> {"A", "B", "C"}],
     [name |-> "Y", problems |-> {"A", "C"}, dependencies |-> ("C" :> Rule2)],
     [name |-> "Y", problems |-> {"A", "B"}, dependencies |-> ("C" :> Rule2)]}

\* the lists of solved problem documents, no problem twice
SolvedLists ==
    {s \in UNION {[1..k -> {[sanitized_name |-> n] : n \in Names}]
                    : k \in 0..Cardinality(Names)} :
        \A i, j \in 1..Len(s) : i # j => s[i] # s[j]}

NextUnlock ==
    \/ \E bundle \in BundleChoices : InsertBundle(bundle)
    \/ \E name \in {"X", "Y"}, enabled \in BOOLEAN :
          SetBundleDependenciesEnabled(BundleHash(name), enabled)
    \/ \E name \in Names, solved \in SolvedLists :
          IsProblemUnlocked(name, solved)

SpecUnlock == InitEmpty /\ [][NextUnlock]_vars

(***************************************************************************)
(* Properties of assign_instance_to_team.                                  *)
(***************************************************************************)
\* the step is a call of assign_instance_to_team
AssignStep == last'.op = "assign"

\* the call is not stopped by the test for an existing assignment
PastAssignedTest ==
    last'.reassign \/ last'.pid \notin DOMAIN teams[last'.tid].instances

\* the instances of the problem on the shard of the team
OnShard(tid, pid) ==
    SelectSeq(get_problem(pid).instances,
              LAMBDA i : i.server_number = TeamServer(teams[tid]))

\* C1: a call assign(pid, team) with reassign = false on a team that holds
\* an instance of pid fails with AlreadyAssigned and changes no entry of any
\* team's instance mapping.
C1_SingleCommit ==
    [][(AssignStep /\ ~last'.reassign
            /\ last'.pid \in DOMAIN teams[last'.tid].instances)
        => (last'.err = "AlreadyAssigned" /\ teams' = teams)]_vars

C1_Witness ==
    /\ last.op = "assign"
    /\ last.err = "AlreadyAssigned"
    /\ last.pid \in DOMAIN teams[last.tid].instances

\* C2: a successful assign returns the iid it committed: the returned value
\* is team.instances[pid] as written by the call, and is the iid of an
\* instance of the problem.
C2_ReturnsCommittedIid ==
    (last.op = "assign" /\ last.err = "ok")
        => /\ last.ret = teams[last.tid].instances[last.pid]
           /\ \E i \in 1..Len(get_problem(last.pid).instances) :
                  get_problem(last.pid).instances[i].iid = last.ret

\* C3: with sharding enabled, an assign for a team on shard s commits only
\* an instance whose server_number is s; when the problem has instances but
\* none on shard s, a call that is not stopped as AlreadyAssigned fails
\* with shard_down and commits nothing.
C3_ShardOnly ==
    [][(AssignStep /\ enable_sharding)
        => /\ last'.err = "ok" =>
                \E i \in 1..Len(OnShard(last'.tid, last'.pid)) :
                    OnShard(last'.tid, last'.pid)[i].iid
                        = teams'[last'.tid].instances[last'.pid]
           /\ (PastAssignedTest
                 /\ Len(get_problem(last'.pid).instances) > 0
                 /\ Len(OnShard(last'.tid, last'.pid)) = 0)
               => (last'.err = "shard_down" /\ teams' = teams)]_vars

C3_Witness ==
    /\ enable_sharding
    /\ last.op = "assign" /\ last.tid = 2 /\ last.err = "ok"
    /\ \E i, j \in 1..Len(get_problem(last.pid).instances) :
          /\ get_problem(last.pid).instances[i].server_number = 1
          /\ get_problem(last.pid).instances[j].server_number = 2

\* C4 as claimed: a call that is not stopped as AlreadyAssigned fails with
\* globally_empty when the problem has no instance at all, and with
\* shard_down when sharding is enabled and the problem has instances but
\* none on the shard of the team.
C4_ReasonByCause ==
    [][(AssignStep /\ PastAssignedTest)
        => /\ Len(get_problem(last'.pid).instances) = 0
                => last'.err = "globally_empty"
           /\ (enable_sharding
                 /\ Len(get_problem(last'.pid).instances) > 0
                 /\ Len(OnShard(last'.tid, last'.pid)) = 0)
               => last'.err = "shard_down"]_vars

\* C4 as amended: the reason follows the sharding setting.  With sharding
\* disabled a problem with no instance fails with globally_empty; with
\* sharding enabled a problem with no instance on the shard of the team
\* fails with shard_down, also when the problem has no instance at all.
C4_ReasonBySetting ==
    [][(AssignStep /\ PastAssignedTest)
        => /\ (~enable_sharding /\ Len(get_problem(last'.pid).instances) = 0)
               => (last'.err = "globally_empty" /\ teams' = teams)
           /\ (enable_sharding /\ Len(OnShard(last'.tid, last'.pid)) = 0)
               => (last'.err = "shard_down" /\ teams' = teams)
           /\ last'.err \in {"globally_empty", "shard_down"}
               => Len(AvailableInstances(teams[last'.tid],
                                         get_problem(last'.pid))) = 0]_vars

C4_Witness ==
    /\ enable_sharding
    /\ last.op = "assign" /\ last.err = "shard_down"
    /\ Len(get_problem(last.pid).instances) = 0

(***************************************************************************)
(* Properties of get_instance_data.                                        *)
(***************************************************************************)
\* C5: no call of get_instance_data makes more than one forced
\* reassignment, also when publishes of the problem arrive between its
\* steps.
C5_OneForcedReassignment ==
    call.pc # "idle" => call.reassigns <= 1

\* C6: over the calls of get_unlocked_pids, get_instance_data,
\* grade_problem, submit_key and reevaluate, an entry of a team's mapping
\* stays, and changes only when its iid is not an instance of the problem
\* any more; and get_instance_data on a team with no instance of pid makes
\* its one assign and no reassignment.
C6_SetOnce ==
    [][/\ \A t \in Tids : \A p \in DOMAIN teams[t].instances :
             /\ p \in DOMAIN teams'[t].instances
             /\ teams'[t].instances[p] # teams[t].instances[p]
                  => InstanceIndex(get_problem(p), teams[t].instances[p]) = 0
       /\ (last'.op \in {"resolve", "grade"} /\ ~last'.committed)
             => last'.reassigns = 0]_vars

(***************************************************************************)
(* Properties of get_unlocked_pids.                                        *)
(***************************************************************************)
CategoryOf(pid) == get_problem(pid).category

\* the pids the team or a member of it has a correct entry for
SolvedHistory(tid) ==
    {submissions[i].pid : i \in
        {j \in 1..Len(submissions) :
            /\ submissions[j].correct
            /\ submissions[j].tid = tid \/ submissions[j].uid \in Members(tid)}}

CountedSolved(tid, category) ==
    {SolvedForUnlock(tid, category)[i].pid
        : i \in 1..Len(SolvedForUnlock(tid, category))}

\* the list for category c is the list for no category, cut to c
FilterOnly(tid, c) ==
    UnlockedList(tid, {c})
        = SelectSeq(UnlockedList(tid, {}), LAMBDA pid : CategoryOf(pid) = c)

ReturnsFiltered ==
    (last.op = "get_unlocked_pids" /\ last.err = "ok")
        => last.ret = SelectSeq(UnlockedList(last.tid, {}),
                                LAMBDA pid : last.category # {}
                                                => CategoryOf(pid) \in last.category)

\* C10 as claimed: the category only cuts the list returned, and the
\* solved problems counted for the weights are the team's full solved
\* history, whatever the category.
C10_FullHistory ==
    /\ \A t \in Tids, c \in Categories : FilterOnly(t, c)
    /\ ReturnsFiltered
    /\ \A t \in Tids, category \in {{}} \cup {{c} : c \in Categories} :
          CountedSolved(t, category) = SolvedHistory(t)

\* C10 as amended: the category only cuts the list returned, and the
\* solved problems counted for the weights are, whatever the category,
\* those of the team's solved history that are not disabled now.
C10_EnabledHistory ==
    /\ \A t \in Tids, c \in Categories : FilterOnly(t, c)
    /\ ReturnsFiltered
    /\ \A t \in Tids, category \in {{}} \cup {{c} : c \in Categories} :
          CountedSolved(t, category)
              = {pid \in SolvedHistory(t) : ~get_problem(pid).disabled}

\* B, of category crypto, is unlocked by the solve of A, of category web
C10_Witness ==
    /\ last.op = "get_unlocked_pids" /\ last.err = "ok"
    /\ last.category = {"crypto"}
    /\ bundles[1].dependencies_enabled
    /\ SolvedHistory(last.tid) = {PidA}
    /\ last.ret = <<PidB>>

(***************************************************************************)
(* Properties of is_problem_unlocked.                                      *)
(***************************************************************************)
\* the bundle contains the problem, has its dependencies enabled and
\* defines a rule for the problem
Applicable(bundle, name) ==
    /\ name \in bundle.problems
    /\ "dependencies" \in DOMAIN bundle
    /\ bundle.dependencies_enabled
    /\ name \in DOMAIN bundle.dependencies

ApplicableBundles(name) ==
    {i \in 1..Len(bundles) : Applicable(bundles[i], name)}

\* the weight of the set of solved names under a weightmap, name by name
SolvedWeight(weightmap, solved) ==
    LET names == {solved[i].sanitized_name : i \in 1..Len(solved)}
        w(n) == IF n \in names /\ n \in DOMAIN weightmap THEN weightmap[n] ELSE 0
    IN w("A") + w("B") + w("C")

RuleSatisfied(bundle, name, solved) ==
    SolvedWeight(bundle.dependencies[name].weightmap, solved)
        >= bundle.dependencies[name].threshold

\* C7: is_problem_unlocked is true for every solved list when no bundle
\* that contains the problem both has dependencies_enabled and defines a
\* rule for it.
C7_UnlockedByDefault ==
    (last.op = "is_problem_unlocked" /\ ApplicableBundles(last.name) = {})
        => last.ret = TRUE

\* a rule the solved list does not satisfy, in a bundle whose dependencies
\* are switched off
C7_Witness ==
    /\ last.op = "is_problem_unlocked"
    /\ ApplicableBundles(last.name) = {}
    /\ \E i \in 1..Len(bundles) :
          /\ last.name \in bundles[i].problems
          /\ "dependencies" \in DOMAIN bundles[i]
          /\ ~bundles[i].dependencies_enabled
          /\ last.name \in DOMAIN bundles[i].dependencies
          /\ ~RuleSatisfied(bundles[i], last.name, last.solved)
    /\ last.ret = TRUE

\* C8: with one applicable rule, is_problem_unlocked is true iff the sum
\* over the solved set of the weights (0 for a name the weightmap lacks)
\* reaches the threshold; with weightmap {A:1, B:2} and threshold 2, {} and
\* {A} are locked, {B} and {A, B} are unlocked.
C8_WeightedThreshold ==
    (last.op = "is_problem_unlocked"
        /\ Cardinality(ApplicableBundles(last.name)) = 1)
        => LET b == bundles[CHOOSE i \in ApplicableBundles(last.name) : TRUE]
               names == {last.solved[i].sanitized_name
                            : i \in 1..Len(last.solved)}
           IN /\ last.ret = RuleSatisfied(b, last.name, last.solved)
              /\ (b.dependencies[last.name] = Rule1 /\ names \subseteq {"A", "B"})
                    => last.ret = ("B" \in names)

C8_Witness ==
    /\ last.op = "is_problem_unlocked"
    /\ Cardinality(ApplicableBundles(last.name)) = 1
    /\ bundles[CHOOSE i \in ApplicableBundles(last.name) : TRUE]
            .dependencies[last.name] = Rule1
    /\ last.solved = <<[sanitized_name |-> "B"]>>
    /\ last.ret = TRUE

\* C9: with applicable rules in several bundles, is_problem_unlocked is
\* true iff every one of them is satisfied, whatever the order of the
\* bundles.
C9_EveryRule ==
    (last.op = "is_problem_unlocked"
        /\ Cardinality(ApplicableBundles(last.name)) >= 2)
        => last.ret = \A i \in ApplicableBundles(last.name) :
                          RuleSatisfied(bundles[i], last.name, last.solved)

\* the first bundle's rule fails, the last one's holds
C9_Witness ==
    /\ last.op = "is_problem_unlocked"
    /\ Len(bundles) = 2
    /\ ApplicableBundles(last.name) = {1, 2}
    /\ ~RuleSatisfied(bundles[1], last.name, last.solved)
    /\ RuleSatisfied(bundles[2], last.name, last.solved)
    /\ last.ret = FALSE

(***************************************************************************)
(* Properties of the instances get_unlocked_pids commits.                  *)
(***************************************************************************)
\* C11: a call of get_unlocked_pids that follows a call with the same team
\* and category, nothing in between, ends as that call ended, returns the
\* list it returned and leaves every team's instance mapping as it is.
C11_Idempotent ==
    [][(last'.op = "get_unlocked_pids" /\ last'.repeat)
          => /\ last'.err = last.err
             /\ last'.ret = last.ret
             /\ teams' = teams]_vars

\* a second call in a row that returned pids, all of them committed by
\* the call before it
C11_Witness ==
    /\ last.op = "get_unlocked_pids" /\ last.repeat /\ last.err = "ok"
    /\ Len(last.ret) > 0
    /\ \A i \in 1..Len(last.ret) : last.ret[i] \in last.held

\* C12: when get_unlocked_pids returns, every pid of the list returned has
\* an iid in the team's instance mapping, and every pid that had one before
\* the call has the same one after it.
C12_CommittedAndKept ==
    [][(last'.op = "get_unlocked_pids" /\ last'.err = "ok")
          => LET before == teams[last'.tid].instances
                 after == teams'[last'.tid].instances
             IN /\ \A i \in 1..Len(last'.ret) : last'.ret[i] \in DOMAIN after
                /\ \A pid \in DOMAIN before :
                      pid \in DOMAIN after /\ after[pid] = before[pid]]_vars

\* the call found a pid committed before it and committed another one
C12_Witness ==
    /\ last.op = "get_unlocked_pids" /\ last.err = "ok"
    /\ last.held # {}
    /\ \E i \in 1..Len(last.ret) : last.ret[i] \notin last.held
    /\ \A i \in 1..Len(last.ret) :
          last.ret[i] \in DOMAIN teams[last.tid].instances

(***************************************************************************)
(* Properties of submit_key.                                               *)
(***************************************************************************)
\* the call of get_unlocked_pids at line 427 returns a list
UnlockReturns(tid) ==
    \A u \in get_unlocked_pids(teams[tid], {}) : u.err = "ok"

\* the user has a correct entry in the ledger, for whatever pid
SolvedBefore(uid) ==
    \E i \in 1..Len(submissions) :
        submissions[i].uid = uid /\ submissions[i].correct

\* the step appends one entry to the ledger and changes no other
Grew ==
    /\ Len(submissions') = Len(submissions) + 1
    /\ SubSeq(submissions', 1, Len(submissions)) = submissions

AtMostOneCorrect(ledger) ==
    \A i, j \in 1..Len(ledger) :
        (ledger[i].correct /\ ledger[j].correct /\ ledger[i].uid = ledger[j].uid)
            => i = j

\* C13: a submit for a pid that is not in the list get_unlocked_pids
\* returns to it ends with the locked-problem error, writes no ledger
\* entry, recomputes no cache and calls no achievement hook, and touches
\* the team document only as get_unlocked_pids does (nothing is graded).
C13_LockedFailsFirst ==
    [][(/\ last'.op = "submit"
        /\ UnlockReturns(last'.tid)
        /\ ~InSeq(last'.pid, UnlockedList(last'.tid, {})))
          => /\ last'.err = "LockedProblem"
             /\ submissions' = submissions
             /\ last'.events = << >>
             /\ teams'[last'.tid]
                  \in {u.team : u \in get_unlocked_pids(teams[last'.tid], {})}]_vars

\* a submit for B while the rule of the bundle keeps B locked
C13_Witness ==
    /\ last.op = "submit" /\ last.err = "LockedProblem"
    /\ last.pid = PidB
    /\ bundles[1].dependencies_enabled
    /\ submissions = << >>

\* C15: the third component submit returns is true iff the ledger held,
\* before the call, a correct entry of this team for this same pid.
C15_TeamSolvedSamePid ==
    [][(last'.op = "submit" /\ last'.err = "ok")
          => last'.ret[3]
               = (\E i \in 1..Len(submissions) :
                     /\ submissions[i].tid = last'.tid
                     /\ submissions[i].pid = last'.pid
                     /\ submissions[i].correct)]_vars

\* C16: a submit that passes the lock and user checks and is graded
\* appends exactly one entry, carrying the graded correctness, when the
\* user has no correct entry for any pid, and appends nothing when the user
\* has one, returning the graded result and already_solved_by_user = TRUE;
\* a ledger with at most one correct entry per user stays so.
C16_FirstCorrectGate ==
    [][(last'.op = "submit" /\ last'.err \in {"ok", "AchievementError"})
          => /\ ~SolvedBefore(last'.uid)
                  => /\ Grew
                     /\ LET e == submissions'[Len(submissions')]
                        IN /\ e.uid = last'.uid /\ e.tid = last'.tid
                           /\ e.pid = last'.pid /\ e.key = last'.key
                           /\ last'.err = "ok" => e.correct = last'.ret[1]
             /\ SolvedBefore(last'.uid) => submissions' = submissions
             /\ last'.err = "ok" => last'.ret[2] = SolvedBefore(last'.uid)
             /\ AtMostOneCorrect(submissions)
                  => AtMostOneCorrect(submissions')]_vars

\* a correct key for a second problem by a user who solved another one:
\* graded correct, reported as solved by the user, not recorded
C16_Witness ==
    /\ last.op = "submit" /\ last.err = "ok"
    /\ last.ret[1] /\ last.ret[2]
    /\ Len(submissions) = 1
    /\ submissions[1].correct /\ submissions[1].uid = last.uid
    /\ submissions[1].pid # last.pid

DebugKey == <<9>>

GradeKeys == {<< >>, F1, F2, <<1, 2>>, <<3, 1>>, <<3, 9>>}

SubmitKeys == {<<3, 1>>, <<3, 9>>}

InitGrade ==
    /\ problems = << >>
    /\ bundles = << >>
    /\ teams = InitTeams
    /\ submissions = << >>
    /\ enable_sharding = FALSE
    /\ DEBUG_KEY \in {{}, {DebugKey}}
    /\ last = Idle
    /\ call = NoCall
    /\ cache = EmptyCache

NextGrade ==
    \/ \E sid \in Sids, n \in 0..MaxInstances :
          InsertProblem("A", sid, n, IF sid = 1 THEN F1 ELSE F2)
    \/ \E d \in BOOLEAN : UpdateProblem(PidA, d)
    \/ \E key \in GradeKeys : Grade(PidA, key, 1)
    \/ \E key \in SubmitKeys : Submit(1, PidA, key, 1)

SpecGrade == InitGrade /\ [][NextGrade]_vars

(***************************************************************************)
(* Properties of grade_problem.                                            *)
(***************************************************************************)
\* key = a \o f \o b for some a and b
IsSubstring(f, key) ==
    \E a, b \in 0..Len(key) :
        /\ a + Len(f) + b = Len(key)
        /\ \A j \in 1..Len(f) : key[a + j] = f[j]

\* the flag of the instance the team's mapping names for pid
ResolvedFlag(tid, pid) ==
    LET problem == get_problem(pid)
        iid == teams[tid].instances[pid]
    IN problem.instances[
          CHOOSE i \in 1..Len(problem.instances) : problem.instances[i].iid = iid
       ].flag

SubstringGrade(tid, pid, key) ==
    \/ IsSubstring(ResolvedFlag(tid, pid), key)
    \/ DEBUG_KEY # {} /\ \E d \in DEBUG_KEY : IsSubstring(d, key)

\* C14: grade_problem returns TRUE iff the flag of the team's resolved
\* instance is a substring of the key or a debug key is set and is a
\* substring of the key (so with no debug key a key without the flag is
\* never correct), and the entry submit_key records carries that result.
C14_SubstringGrading ==
    /\ (last.op = "grade" /\ last.err = "ok")
          => /\ last.ret = SubstringGrade(last.tid, last.pid, last.key)
             /\ (DEBUG_KEY = {}
                  /\ ~IsSubstring(ResolvedFlag(last.tid, last.pid), last.key))
                  => ~last.ret
    /\ (last.op = "submit" /\ last.err = "ok")
          => /\ last.ret[1] = SubstringGrade(last.tid, last.pid, last.key)
             /\ ~last.ret[2]
                  => submissions[Len(submissions)].correct = last.ret[1]

\* a key that is longer than the flag and holds it is graded correct on
\* the flag alone, the problem having instances with another flag
C14_Witness ==
    /\ last.op = "grade" /\ last.err = "ok"
    /\ DEBUG_KEY = {}
    /\ last.key = <<3, 1>> /\ last.ret
    /\ ResolvedFlag(last.tid, last.pid) = F1
    /\ \E i \in 1..Len(get_problem(last.pid).instances) :
          get_problem(last.pid).instances[i].flag = F2

(***************************************************************************)
(* SpecAssignRace: two callers in assign_instance_to_team at once, each    *)
(* call in the two accesses to the store the code makes: the reads of      *)
(* lines 295-296, with the tests and the choice that follow them, and the  *)
(* update of line 327, which sets the team document as it was read, with   *)
(* the chosen iid in it.  call[c] is the call of caller c; fresh tells     *)
(* whether the team document read had no instance of pid.                  *)
(***************************************************************************)
Callers == {1, 2}

NoCalls == [c \in Callers |-> NoCall]

InitAssignRace ==
    /\ problems = << >>
    /\ bundles = << >>
    /\ teams = InitTeams
    /\ submissions = << >>
    /\ enable_sharding = FALSE
    /\ DEBUG_KEY = {}
    /\ last = Idle
    /\ call = NoCalls
    /\ cache = EmptyCache

\* lines 295-322
AssignRead(c, pid, tid, reassign) ==
    /\ call[c].pc \in {"idle", "done"}
    /\ HasProblem(pid)
    /\ \E o \in assign_instance_to_team(teams[tid], get_problem(pid), reassign) :
          call' = [call EXCEPT ![c] =
                     [pc |-> IF o.err = "ok" THEN "write" ELSE "done",
                      tid |-> tid, pid |-> pid, reassign |-> reassign,
                      fresh |-> pid \notin DOMAIN teams[tid].instances,
                      err |-> o.err, ret |-> o.ret, team |-> o.team]]
    /\ UNCHANGED <<problems, bundles, teams, submissions, enable_sharding,
                   DEBUG_KEY, last, cache>>

\* lines 324-329
AssignWrite(c) ==
    /\ call[c].pc = "write"
    /\ teams' = [teams EXCEPT ![call[c].tid] = call[c].team]
    /\ call' = [call EXCEPT ![c].pc = "done"]
    /\ UNCHANGED <<problems, bundles, submissions, enable_sharding,
                   DEBUG_KEY, last, cache>>

NextAssignRace ==
    \/ \E n \in 0..MaxInstances : InsertProblem("A", 1, n, F1)
    \/ \E c \in Callers, tid \in Tids, reassign \in BOOLEAN :
          AssignRead(c, PidA, tid, reassign)
    \/ \E c \in Callers : AssignWrite(c)

SpecAssignRace == InitAssignRace /\ [][NextAssignRace]_vars

(***************************************************************************)
(* Properties of concurrent calls.                                         *)
(***************************************************************************)
\* the two calls are over, both were assign(pid, tid) with reassign=False
\* for the same pid and team, and both read a team without instance of pid
BothAssignedFresh ==
    /\ \A c \in Callers :
          /\ call[c].pc = "done"
          /\ call[c].fresh /\ ~call[c].reassign
    /\ call[1].tid = call[2].tid /\ call[1].pid = call[2].pid

\* C18: of two concurrent calls assign(pid, tid, reassign=False) on a team
\* without instance of pid, at most one succeeds, and the iid the team
\* holds when both are over is the one that call chose.
C18_AtomicAssign ==
    BothAssignedFresh
       => /\ ~(call[1].err = "ok" /\ call[2].err = "ok")
          /\ \A c \in Callers :
                call[c].err = "ok"
                   => teams[call[c].tid].instances[call[c].pid]
                        = call[c].team.instances[call[c].pid]

(***************************************************************************)
(* SpecSubmitRace: two callers in submit_key at once for user 1 of team 1, *)
(* each call in its accesses to the store: the unlock test of line 427,    *)
(* the two reads of the ledger of lines 436-446, the grading of line 448,  *)
(* the insert of lines 450-461 and the recomputation and hook of lines     *)
(* 463-475.  call[c] is the call of caller c.                              *)
(***************************************************************************)
InitSubmitRace ==
    /\ problems =
          update_problem(
            update_problem(
              insert_problem(insert_problem(<< >>, "A", 1, 2, F1), "B", 1, 1, F2),
              PidA, FALSE),
            PidB, FALSE)
    /\ bundles = insert_bundle(<< >>, PublishedBundle)
    /\ teams = InitTeams
    /\ submissions = << >>
    /\ enable_sharding = FALSE
    /\ DEBUG_KEY = {}
    /\ last = Idle
    /\ call = NoCalls
    /\ cache = EmptyCache

\* the calls that may still insert an entry
InFlight == {c \in Callers : call[c].pc \notin {"idle", "done"}}

\* line 427
SubmitUnlock(c, tid, pid, key, uid) ==
    /\ call[c].pc \in {"idle", "done"}
    /\ Len(submissions) + Cardinality(InFlight) < MaxSubmissions
    /\ \E u \in get_unlocked_pids(teams[tid], {}) :
          /\ teams' = [teams EXCEPT ![tid] = u.team]
          /\ call' = [call EXCEPT ![c] =
                [pc |-> IF u.err # "ok" \/ Locked(pid, u.ret)
                        THEN "done" ELSE "reads",
                 err |-> IF u.err # "ok" THEN u.err
                         ELSE IF Locked(pid, u.ret) THEN "LockedProblem"
                         ELSE "ok",
                 tid |-> tid, pid |-> pid, key |-> key, uid |-> uid,
                 previously_solved_by_user |-> FALSE,
                 previously_solved_by_team |-> FALSE,
                 correct |-> FALSE, hook |-> FALSE]]
    /\ UNCHANGED <<problems, bundles, submissions, enable_sharding, DEBUG_KEY,
                   last, cache>>

\* lines 436-446
SubmitReads(c) ==
    /\ call[c].pc = "reads"
    /\ call' = [call EXCEPT
          ![c].pc = "grade",
          ![c].previously_solved_by_user =
              get_submissions({}, {call[c].uid}, {}, {}, {TRUE}) # << >>,
          ![c].previously_solved_by_team =
              get_submissions({}, {}, {call[c].tid}, {}, {TRUE}) # << >>]
    /\ UNCHANGED <<problems, bundles, teams, submissions, enable_sharding,
                   DEBUG_KEY, last, cache>>

\* line 448
SubmitGrade(c) ==
    /\ call[c].pc = "grade"
    /\ \E g \in grade_problem(teams[call[c].tid], call[c].pid, call[c].key) :
          /\ teams' = [teams EXCEPT ![call[c].tid] = g.team]
          /\ call' = [call EXCEPT
                ![c].pc = IF g.err = "ok" THEN "insert" ELSE "done",
                ![c].err = g.err,
                ![c].correct = g.correct]
    /\ UNCHANGED <<problems, bundles, submissions, enable_sharding, DEBUG_KEY,
                   last, cache>>

\* lines 450-461
SubmitInsert(c) ==
    /\ call[c].pc = "insert"
    /\ submissions' =
          Recorded(submissions, call[c].previously_solved_by_user,
                   [uid |-> call[c].uid, tid |-> call[c].tid,
                    pid |-> call[c].pid, key |-> call[c].key,
                    category |-> get_problem(call[c].pid).category,
                    correct |-> call[c].correct])
    /\ call' = [call EXCEPT
          ![c].pc = IF InSeq("achievements",
                             Events(call[c].correct,
                                    call[c].previously_solved_by_user))
                    THEN "hook" ELSE "done"]
    /\ UNCHANGED <<problems, bundles, teams, enable_sharding, DEBUG_KEY,
                   last, cache>>

\* lines 463-477
SubmitHook(c) ==
    /\ call[c].pc = "hook"
    /\ cache' = [cache EXCEPT ![call[c].tid] = {get_score(call[c].tid)}]
    /\ \E err \in {"ok", "AchievementError"} :
          call' = [call EXCEPT ![c].pc = "done", ![c].hook = TRUE,
                               ![c].err = err]
    /\ UNCHANGED <<problems, bundles, teams, submissions, enable_sharding,
                   DEBUG_KEY, last>>

NextSubmitRace ==
    \/ \E c \in Callers, pid \in {PidA, PidB}, key \in {F1, F2} :
          SubmitUnlock(c, 1, pid, key, 1)
    \/ \E c \in Callers : SubmitReads(c)
    \/ \E c \in Callers : SubmitGrade(c)
    \/ \E c \in Callers : SubmitInsert(c)
    \/ \E c \in Callers : SubmitHook(c)

SpecSubmitRace == InitSubmitRace /\ [][NextSubmitRace]_vars

\* the calls that called the achievement hook
Hooked == {c \in Callers : call[c].pc # "idle" /\ call[c].hook}

\* C19: of two concurrent correct submits of one user, at most one correct
\* entry of the user is recorded and at most one call calls the
\* achievement hook.
C19_AtomicFirstCorrect ==
    /\ AtMostOneCorrect(submissions)
    /\ Cardinality(Hooked) <= 1

(***************************************************************************)
(* SpecCache: the writes of the administrator and the submits of team 1    *)
(* against the published store, with memoized reads of the team's score    *)
(* between them.                                                           *)
(***************************************************************************)
NextCache ==
    \/ \E n \in 0..MaxInstances : InsertProblem("A", 1, n, F1)
    \/ \E pid \in {PidA, PidB}, d \in BOOLEAN : UpdateProblem(pid, d)
    \/ \E enabled \in BOOLEAN :
          SetBundleDependenciesEnabled(BundleHash("X"), enabled)
    \/ \E pid \in {PidA, PidB}, key \in {F1, F2} : Submit(1, pid, key, 1)
    \/ \E pid \in {PidA, PidB} : Reevaluate(pid)
    \/ ReevaluateAll
    \/ GetScore(1)

SpecCache == InitPublished /\ [][NextCache]_vars

(***************************************************************************)
(* Properties of the cache.                                                *)
(***************************************************************************)
Mutating ==
    {"insert_problem", "update_problem", "insert_bundle",
     "set_bundle_dependencies_enabled", "reevaluate", "reevaluate_all"}

\* C20: when a mutating operation has returned the whole cache is clear,
\* and a read of the score returns the score of the store as it is.
C20_ClearedAfterWrite ==
    /\ last.op \in Mutating => cache = EmptyCache
    /\ last.op = "get_score" => last.ret = get_score(last.tid)

(***************************************************************************)
(* Properties of insert_problem.                                           *)
(***************************************************************************)
\* the positions of the documents with that pid
DocumentsOf(ps, pid) == {i \in 1..Len(ps) : ps[i].pid = pid}

\* C23: a publish from shell server sid of a problem that exists leaves
\* one document with its pid, in its place; the instances of the document
\* are the old ones of the other shell servers, unchanged and in their
\* order, followed by the published ones; it is disabled iff it was
\* disabled or has no instance left; the other problems, the ledger and
\* the team documents are as they were.
C23_RepublishInPlace ==
    [][(last'.op = "insert_problem" /\ HasProblem(last'.pid))
          => LET pid == last'.pid
                 sid == last'.sid
                 idx == ProblemIndex(problems, pid)
                 old == problems[idx]
                 new == problems'[idx]
                 kept == SelectSeq(old.instances, LAMBDA i : i.sid # sid)
             IN /\ Len(problems') = Len(problems)
                /\ DocumentsOf(problems', pid) = {idx}
                /\ \A j \in 1..Len(problems) :
                      j # idx => problems'[j] = problems[j]
                /\ Len(new.instances) >= Len(kept)
                /\ SubSeq(new.instances, 1, Len(kept)) = kept
                /\ \A j \in (Len(kept) + 1)..Len(new.instances) :
                      /\ new.instances[j].sid = sid
                      /\ new.instances[j].iid
                           = IidHash(j - Len(kept) - 1, sid, pid)
                /\ new.disabled = (old.disabled \/ Len(new.instances) = 0)
                /\ submissions' = submissions
                /\ teams' = teams]_vars

\* an enabled problem with instances of both shell servers after a
\* publish, with entries in the ledger and an instance held by the team
C23_Witness ==
    /\ last.op = "insert_problem"
    /\ LET problem == get_problem(last.pid)
       IN /\ ~problem.disabled
          /\ \E i, j \in 1..Len(problem.instances) :
                /\ problem.instances[i].sid # last.sid
                /\ problem.instances[j].sid = last.sid
    /\ submissions # << >>
    /\ last.pid \in DOMAIN teams[1].instances

(***************************************************************************)
(* SpecReeval: submits of user 1 of team 1 and user 3 of team 2 to the     *)
(* problems A and B, publishes of A that change the flag of its instance   *)
(* of shell server 1 or add an instance of shell server 2 with the flag    *)
(* F2, and reevaluations.  No bundle: every enabled problem is unlocked.   *)
(***************************************************************************)
InitReeval ==
    /\ problems =
          update_problem(
            update_problem(
              insert_problem(insert_problem(<< >>, "A", 1, 1, F1), "B", 1, 1, F2),
              PidA, FALSE),
            PidB, FALSE)
    /\ bundles = << >>
    /\ teams = InitTeams
    /\ submissions = << >>
    /\ enable_sharding = FALSE
    /\ DEBUG_KEY = {}
    /\ last = Idle
    /\ call = NoCall
    /\ cache = EmptyCache

\* the submitters: a team and a user of it
Submitters == {<<1, 1>>, <<2, 3>>}

NextReeval ==
    \/ \E flag \in {F1, F2} : InsertProblem("A", 1, 1, flag)
    \/ InsertProblem("A", 2, 1, F2)
    \/ \E tu \in Submitters, pid \in {PidA, PidB}, key \in {F1, F2} :
          Submit(tu[1], pid, key, tu[2])
    \/ \E pid \in {PidA, PidB} : Reevaluate(pid)

SpecReeval == InitReeval /\ [][NextReeval]_vars

(***************************************************************************)
(* Properties of reevaluate_submissions_for_problem.                       *)
(***************************************************************************)
\* the step is a call reevaluate(pid) that returned
Reevaluated == last'.op = "reevaluate" /\ last'.err = "ok"

\* the entries submitted against pid
EntriesOf(pid) == {i \in 1..Len(submissions) : submissions[i].pid = pid}

\* the first entry against pid with that key
FirstWithKey(pid, key) ==
    CHOOSE i \in EntriesOf(pid) :
        /\ submissions[i].key = key
        /\ \A j \in EntriesOf(pid) : submissions[j].key = key => i <= j

\* the team document names an instance of the problem
Resolves(tms, tid, pid) ==
    /\ pid \in DOMAIN tms[tid].instances
    /\ \E i \in 1..Len(get_problem(pid).instances) :
          get_problem(pid).instances[i].iid = tms[tid].instances[pid]

\* the flag of the instance the team document names
FlagIn(tms, tid, pid) ==
    LET problem == get_problem(pid)
    IN problem.instances[
          CHOOSE i \in 1..Len(problem.instances) :
              problem.instances[i].iid = tms[tid].instances[pid]
       ].flag

\* no instance of the problem has a flag that is in the key
NoFlagIn(pid, key) ==
    \A i \in 1..Len(get_problem(pid).instances) :
        ~IsSubstring(get_problem(pid).instances[i].flag, key)

\* C21: reevaluate(pid) sets to FALSE every entry against pid recorded
\* correct whose key holds no flag of the problem any more, and a second
\* reevaluate(pid) right after it changes no entry.
C21_RoundTrip ==
    [][Reevaluated
          => /\ \A j \in EntriesOf(last'.pid) :
                   (submissions[j].correct
                      /\ NoFlagIn(last'.pid, submissions[j].key))
                      => ~submissions'[j].correct
             /\ (last.op = "reevaluate" /\ last.err = "ok"
                   /\ last.pid = last'.pid)
                  => submissions' = submissions]_vars

\* the keys submitted against pid
KeysOf(pid) == {submissions[i].key : i \in EntriesOf(pid)}

\* the grade reevaluate(pid) computes for the key: that of the team of the
\* first entry against pid with the key, on the instance the team document
\* tms names
Regrade(tms, pid, key) ==
    Graded(FlagIn(tms, submissions[FirstWithKey(pid, key)].tid, pid), key)

\* the regrade differs from what the first entry with the key has stored
Differs(tms, pid, key) ==
    Regrade(tms, pid, key) # submissions[FirstWithKey(pid, key)].correct

\* C22: reevaluate(pid) adds and deletes no entry and changes the
\* correctness alone, of exactly the entries, of whatever pid, team and
\* user, whose key is a key submitted against pid whose regrade differs
\* from the correctness stored in the first entry against pid with that
\* key; these entries get the regrade.
C22_ScopedByKey ==
    [][Reevaluated
          => /\ Len(submissions') = Len(submissions)
             /\ \A j \in 1..Len(submissions) :
                   LET e == submissions[j]
                   IN submissions'[j]
                        = IF /\ e.key \in KeysOf(last'.pid)
                             /\ Differs(teams', last'.pid, e.key)
                          THEN [e EXCEPT !.correct =
                                   Regrade(teams', last'.pid, e.key)]
                          ELSE e]_vars

\* reevaluate(A) has set an entry against B to FALSE, its key being a key
\* submitted against A that is no flag of A any more
C22_Witness ==
    /\ last.op = "reevaluate" /\ last.err = "ok" /\ last.pid = PidA
    /\ Len(submissions) = 2
    /\ submissions[1].pid = PidA /\ submissions[2].pid = PidB
    /\ submissions[1].key = F2 /\ submissions[2].key = F2
    /\ ~submissions[1].correct /\ ~submissions[2].correct
    /\ FlagIn(teams, submissions[2].tid, PidB) = F2

\* C26: after reevaluate(pid) every entry against pid stores the grade of
\* its own key on the instance of its own team.
C26_OwnTeamGrade ==
    [][Reevaluated
          => \A j \in 1..Len(submissions') :
                (submissions'[j].pid = last'.pid
                   /\ Resolves(teams', submissions'[j].tid, last'.pid))
                   => submissions'[j].correct
                        = Graded(FlagIn(teams', submissions'[j].tid, last'.pid),
                                 submissions'[j].key)]_vars

(***************************************************************************)
(* Properties of reevaluate_all_submissions.                               *)
(***************************************************************************)
\* C24: when reevaluate_all_submissions is over the cache is clear and the
\* reevaluation of every problem of the store, disabled or not, with or
\* without instances, has been run to its end.
C24_EveryProblemRegraded ==
    last.op = "reevaluate_all"
       => /\ cache = EmptyCache
          /\ last.err = "ok"
          /\ last.done = {problems[i].pid : i \in 1..Len(problems)}

(***************************************************************************)
(* SpecInvalidate: submits of user 1 of team 1 and user 3 of team 2 to the *)
(* problems A and B, and invalidations with every choice of filters.       *)
(***************************************************************************)
NextInvalidate ==
    \/ \E tu \in Submitters, pid \in {PidA, PidB}, key \in {F1, F2} :
          Submit(tu[1], pid, key, tu[2])
    \/ \E pid \in {{}, {PidA}, {PidB}}, uid \in {{}, {1}, {3}},
          tid \in {{}, {1}, {2}} :
          InvalidateSubmissions(pid, uid, tid)

SpecInvalidate == InitReeval /\ [][NextInvalidate]_vars

(***************************************************************************)
(* Properties of invalidate_submissions.                                   *)
(***************************************************************************)
\* C25: invalidate_submissions(pid, uid, tid) sets correct to FALSE in
\* every entry that matches the filters given, every entry when none is
\* given, and changes no other field, no other entry and not the number of
\* entries.
C25_InvalidatesMatching ==
    [][(last'.op = "invalidate_submissions")
          => /\ Len(submissions') = Len(submissions)
             /\ \A j \in 1..Len(submissions) :
                   submissions'[j]
                     = IF Matches(submissions[j], last'.pid, last'.uid,
                                  last'.tid, {}, {})
                       THEN [submissions[j] EXCEPT !.correct = FALSE]
                       ELSE submissions[j]]_vars

(***************************************************************************)
(* SpecTeamRace: the problems A, B and C are published and enabled.  Calls *)
(* of assign_instance_to_team for team 1 that are over before the two      *)
(* callers start, then one call of each caller, in the two accesses to the *)
(* store of SpecAssignRace.                                                *)
(***************************************************************************)
PidC == ProblemHash("C")

InitTeamRace ==
    /\ problems =
          update_problem(
            update_problem(
              update_problem(
                insert_problem(
                  insert_problem(insert_problem(<< >>, "A", 1, 2, F1),
                                 "B", 1, 1, F2),
                  "C", 1, 2, F1),
                PidA, FALSE),
              PidB, FALSE),
            PidC, FALSE)
    /\ bundles = << >>
    /\ teams = InitTeams
    /\ submissions = << >>
    /\ enable_sharding = FALSE
    /\ DEBUG_KEY = {}
    /\ last = Idle
    /\ call = NoCalls
    /\ cache = EmptyCache

\* lines 295-329 of a call that no other call overlaps
AssignBefore(pid, tid, reassign) ==
    /\ \A c \in Callers : call[c].pc = "idle"
    /\ \E o \in assign_instance_to_team(teams[tid], get_problem(pid), reassign) :
          /\ o.err = "ok"
          /\ teams' = [teams EXCEPT ![tid] = o.team]
    /\ UNCHANGED <<problems, bundles, submissions, enable_sharding,
                   DEBUG_KEY, last, call, cache>>

\* the one call of caller c
AssignOnce(c, pid, tid, reassign) ==
    /\ call[c].pc = "idle"
    /\ AssignRead(c, pid, tid, reassign)

NextTeamRace ==
    \/ \E pid \in Pids, reassign \in BOOLEAN : AssignBefore(pid, 1, reassign)
    \/ \E c \in Callers, pid \in Pids, reassign \in BOOLEAN :
          AssignOnce(c, pid, 1, reassign)
    \/ \E c \in Callers : AssignWrite(c)

SpecTeamRace == InitTeamRace /\ [][NextTeamRace]_vars

\* the two calls are over, both assigned, to the same team, for two
\* different problems
BothAssignedApart ==
    /\ \A c \in Callers : call[c].pc = "done" /\ call[c].err = "ok"
    /\ call[1].tid = call[2].tid /\ call[1].pid # call[2].pid

\* C27: when two concurrent calls of assign for the same team and two
\* different pids are over, the team's mapping holds the iid each call
\* chose for its pid, and the entry of every other pid that was committed
\* before them is still there with the same iid.
C27_NoLostUpdate ==
    BothAssignedApart
       => LET instances == teams[call[1].tid].instances
          IN /\ \A c \in Callers :
                   /\ call[c].pid \in DOMAIN instances
                   /\ instances[call[c].pid] = call[c].team.instances[call[c].pid]
             /\ \A c \in Callers :
                   \A q \in DOMAIN call[c].team.instances
                               \ {call[1].pid, call[2].pid} :
                      /\ q \in DOMAIN instances
                      /\ instances[q] = call[c].team.instances[q]

====
